---- MODULE Spec2Model ----
(***************************************************************************)
(* Model of the AI Fitness Coach agent service:                            *)
(*   config/personalities.py  PersonalitySystem, the persona registry      *)
(*   main.py                  the FastAPI gateway that delegates to the    *)
(*                            agent orchestrator                           *)
(* A task is one invocation in flight: an HTTP request to one of the six   *)
(* endpoints, or a direct call of one of PersonalitySystem's three lookup  *)
(* methods.  Handlers are coroutines on one event loop: the code between   *)
(* two awaits runs atomically, and an await of the orchestrator suspends   *)
(* the task until the orchestrator returns a result or raises.             *)
(***************************************************************************)
EXTENDS Integers, Sequences, FiniteSets, TLC

\* Number of tasks (requests and direct calls) the model lets be in flight.
NumTasks == 2

Tasks == 1..NumTasks

VARIABLES
    personas,   \* personality_system.personas: persona key -> PersonaConfig
    pc,         \* task -> "idle" | "awaiting" | "blocking" | "done"
    req,        \* task -> the operation invoked and its input
    calls,      \* task -> the orchestrator invocations made for the task
    log,        \* task -> the logger records emitted while handling the task
    result,     \* task -> what the awaited orchestrator call yielded, once it has
    resp        \* task -> the outcome delivered to the caller

vars == <<personas, pc, req, calls, log, result, resp>>

-----------------------------------------------------------------------------
(* Python values.  Optional[T] is a sequence of length at most one, so that *)
(* None differs from every value of T, the empty string and the empty list  *)
(* included.                                                                *)

None == <<>>

Some(x) == <<x>>

\* What a method call yields: the receiver's personas afterwards, and either
\* a returned value or a raised exception.
Return(ps, v) == [personas |-> ps, ok |-> TRUE, ret |-> v]

Raise(ps, e) == [personas |-> ps, ok |-> FALSE, exc |-> e]

-----------------------------------------------------------------------------
(* config/personalities.py                                                  *)

PersonaFields ==
    {"name", "tone", "vocabulary", "avoid_phrases", "emoji_usage",
     "response_length", "motivation_style", "sentence_structure",
     "accent_color", "avatar_url", "system_prompt_addon"}

PersonaListFields == {"vocabulary", "avoid_phrases"}

\* The registry with one field of one persona left empty.
initialize_personas_blank ==
    [calm |->
        [name |-> "Zen Coach",
         tone |-> "Measured, patient, mindful, never exclamatory",
         vocabulary |-> <<"Let's", "Consider", "Notice", "Observe", "Gently",
                          "Breathe", "Flow", "Practice", "Honor", "Mindfully">>,
         avoid_phrases |-> <<"Pumped!", "Crush it!", "Beast mode",
                             "No pain no gain", "Push through", "Destroy",
                             "Dominate">>,
         emoji_usage |-> "Minimal, peaceful",
         response_length |-> "Medium to long, thoughtful",
         motivation_style |-> "Intrinsic, mindfulness-based, process-oriented",
         sentence_structure |-> "Longer, flowing sentences with pauses",
         accent_color |-> "#7C9FB0",
         avatar_url |-> "/avatars/calm-coach.png",
         system_prompt_addon |->
            "You embody the \"Calm\" personality in EVERY interaction."],
     motivational |->
        [name |-> "Hype Coach",
         tone |-> "Energetic, enthusiastic, pump-up, competitive",
         vocabulary |-> <<"Crush", "Destroy", "Beast", "Champion", "Dominate",
                          "Warrior", "Victory", "Power", "Unstoppable", "Fire">>,
         avoid_phrases |-> <<"Maybe", "Perhaps", "Consider", "If you want",
                             "Gently", "Slowly", "Rest too much">>,
         emoji_usage |-> "Frequent, high-energy",
         response_length |-> "Short to medium, punchy",
         motivation_style |-> "Extrinsic, competitive, intensity-driven",
         sentence_structure |-> "Short, impactful, exclamatory",
         accent_color |-> "#FF4500",
         avatar_url |-> "/avatars/hype-coach.png",
         system_prompt_addon |->
            "You embody the \"Motivational\" personality in EVERY interaction."],
     gentle |->
        [name |-> "Supportive Coach",
         tone |-> "Warm, encouraging, compassionate, nurturing",
         vocabulary |-> <<"Proud of you", "You've got this", "At your own pace",
                          "Small wins", "Be kind to yourself", "Great job",
                          "Wonderful", "It's okay">>,
         avoid_phrases |-> <<"Push harder", "No excuses", "Toughen up", "Weak",
                             "Lazy", "Failure", "Not good enough">>,
         emoji_usage |-> "Warm, supportive",
         response_length |-> "Medium, reassuring",
         motivation_style |->
            "Self-compassion, progress over perfection, celebrate small wins",
         sentence_structure |-> "Supportive, uses 'we' often, validating",
         accent_color |-> "#FFB6C1",
         avatar_url |-> "",
         system_prompt_addon |->
            "You embody the \"Gentle\" personality in EVERY interaction."],
     concise |->
        [name |-> "Tactical Coach",
         tone |-> "Direct, efficient, no-nonsense, factual",
         vocabulary |-> <<"Do", "Complete", "Execute", "Results", "Data",
                          "Metrics", "Target", "Achieve", "Optimize">>,
         avoid_phrases |-> <<"Let me explain in detail", "Here's a story",
                             "Feel into", "Journey", "Long explanations">>,
         emoji_usage |-> "None or rare task-focused",
         response_length |-> "Short, bullet points preferred",
         motivation_style |-> "Results-driven, data-focused, action-oriented",
         sentence_structure |-> "Short, direct, often fragments",
         accent_color |-> "#36454F",
         avatar_url |-> "/avatars/tactical-coach.png",
         system_prompt_addon |->
            "You embody the \"Concise\" personality in EVERY interaction."]]

\* PersonalitySystem._initialize_personas: the four PersonaConfig objects by
\* key.  The strings are the source's; the emoji lists that close the four
\* emoji_usage strings are left out, and system_prompt_addon, a block of
\* fifteen lines in the source, is held as the line of the block that names
\* the persona.
initialize_personas ==
    [calm |->
        [name |-> "Zen Coach",
         tone |-> "Measured, patient, mindful, never exclamatory",
         vocabulary |-> <<"Let's", "Consider", "Notice", "Observe", "Gently",
                          "Breathe", "Flow", "Practice", "Honor", "Mindfully">>,
         avoid_phrases |-> <<"Pumped!", "Crush it!", "Beast mode",
                             "No pain no gain", "Push through", "Destroy",
                             "Dominate">>,
         emoji_usage |-> "Minimal, peaceful",
         response_length |-> "Medium to long, thoughtful",
         motivation_style |-> "Intrinsic, mindfulness-based, process-oriented",
         sentence_structure |-> "Longer, flowing sentences with pauses",
         accent_color |-> "#7C9FB0",
         avatar_url |-> "/avatars/calm-coach.png",
         system_prompt_addon |->
            "You embody the \"Calm\" personality in EVERY interaction."],
     motivational |->
        [name |-> "Hype Coach",
         tone |-> "Energetic, enthusiastic, pump-up, competitive",
         vocabulary |-> <<"Crush", "Destroy", "Beast", "Champion", "Dominate",
                          "Warrior", "Victory", "Power", "Unstoppable", "Fire">>,
         avoid_phrases |-> <<"Maybe", "Perhaps", "Consider", "If you want",
                             "Gently", "Slowly", "Rest too much">>,
         emoji_usage |-> "Frequent, high-energy",
         response_length |-> "Short to medium, punchy",
         motivation_style |-> "Extrinsic, competitive, intensity-driven",
         sentence_structure |-> "Short, impactful, exclamatory",
         accent_color |-> "#FF4500",
         avatar_url |-> "/avatars/hype-coach.png",
         system_prompt_addon |->
            "You embody the \"Motivational\" personality in EVERY interaction."],
     gentle |->
        [name |-> "Supportive Coach",
         tone |-> "Warm, encouraging, compassionate, nurturing",
         vocabulary |-> <<"Proud of you", "You've got this", "At your own pace",
                          "Small wins", "Be kind to yourself", "Great job",
                          "Wonderful", "It's okay">>,
         avoid_phrases |-> <<"Push harder", "No excuses", "Toughen up", "Weak",
                             "Lazy", "Failure", "Not good enough">>,
         emoji_usage |-> "Warm, supportive",
         response_length |-> "Medium, reassuring",
         motivation_style |->
            "Self-compassion, progress over perfection, celebrate small wins",
         sentence_structure |-> "Supportive, uses 'we' often, validating",
         accent_color |-> "#FFB6C1",
         avatar_url |-> "/avatars/gentle-coach.png",
         system_prompt_addon |->
            "You embody the \"Gentle\" personality in EVERY interaction."],
     concise |->
        [name |-> "Tactical Coach",
         tone |-> "Direct, efficient, no-nonsense, factual",
         vocabulary |-> <<"Do", "Complete", "Execute", "Results", "Data",
                          "Metrics", "Target", "Achieve", "Optimize">>,
         avoid_phrases |-> <<"Let me explain in detail", "Here's a story",
                             "Feel into", "Journey", "Long explanations">>,
         emoji_usage |-> "None or rare task-focused",
         response_length |-> "Short, bullet points preferred",
         motivation_style |-> "Results-driven, data-focused, action-oriented",
         sentence_structure |-> "Short, direct, often fragments",
         accent_color |-> "#36454F",
         avatar_url |-> "/avatars/tactical-coach.png",
         system_prompt_addon |->
            "You embody the \"Concise\" personality in EVERY interaction."]]

\* self.personas[key]: a dict subscript raises KeyError on an absent key.
Subscript(ps, key) ==
    IF key \in DOMAIN ps THEN Return(ps, ps[key]) ELSE Raise(ps, "KeyError")

\* get_persona_config without the membership test.
get_persona_config_strict(ps, persona_name) ==
    Subscript(ps, persona_name)

\* get_persona_config remembering the fallback under the name asked for.
get_persona_config_caching(ps, persona_name) ==
    IF persona_name \notin DOMAIN ps
    THEN Return((persona_name :> ps["calm"]) @@ ps, ps["calm"])
    ELSE Subscript(ps, persona_name)

\* PersonalitySystem.get_persona_config
get_persona_config(ps, persona_name) ==
    IF persona_name \notin DOMAIN ps
    THEN Subscript(ps, "calm")
    ELSE Subscript(ps, persona_name)

\* PersonalitySystem.get_system_prompt_addon
get_system_prompt_addon(ps, persona_name) ==
    LET config == get_persona_config(ps, persona_name)
    IN  IF config.ok
        THEN Return(config.personas, config.ret.system_prompt_addon)
        ELSE config

\* PersonalitySystem.get_ui_config
get_ui_config(ps, persona_name) ==
    LET config == get_persona_config(ps, persona_name)
    IN  IF config.ok
        THEN Return(config.personas,
                    [accent_color |-> config.ret.accent_color,
                     avatar_url |-> config.ret.avatar_url,
                     name |-> config.ret.name])
        ELSE config

-----------------------------------------------------------------------------
(* main.py: request models                                                  *)

\* A request body is a function from the field names it carries to their
\* values.  A pydantic model requires the fields declared without a default
\* and fills the others in; a field of type str accepts every string.

ChatRequestFields ==
    {"message", "user_id", "conversation_id", "persona", "context"}

\* ChatRequest with every field given a default.
ChatRequestDefaults_all ==
    [message |-> "", user_id |-> "", conversation_id |-> None,
     persona |-> "calm", context |-> None]

\* class ChatRequest: the fields declared with a default
ChatRequestDefaults ==
    [conversation_id |-> None, persona |-> "calm", context |-> None]

ReadinessRequestFields == {"user_id", "date"}

\* class ReadinessRequest: the fields declared with a default
ReadinessRequestDefaults == [date |-> None]

PlanGenerationRequestFields == {"user_id", "preferences", "onboarding_data"}

\* class PlanGenerationRequest: no field has a default
PlanGenerationRequestDefaults == [f \in {} |-> None]

\* Validation that also rejects an empty message or user_id.
ValidationErrors_nonempty(fields, defaults, raw) ==
    {f \in fields : f \notin DOMAIN raw /\ f \notin DOMAIN defaults}
        \cup {f \in DOMAIN raw \cap {"message", "user_id"} : raw[f] = ""}

\* BaseModel validation of a body: the required fields it lacks.
ValidationErrors(fields, defaults, raw) ==
    {f \in fields : f \notin DOMAIN raw /\ f \notin DOMAIN defaults}

\* BaseModel construction from a body that passed validation.
Parse(fields, defaults, raw) ==
    [f \in fields |-> IF f \in DOMAIN raw THEN raw[f] ELSE defaults[f]]

\* dict.get(key): the value under the key, or None.
Get(d, key) == IF key \in DOMAIN d THEN Some(d[key]) ELSE None

\* class ChatResponse, built from the orchestrator's result
ChatResponse(r) ==
    [response |-> r.response,
     agent_id |-> r.agent_id,
     conversation_id |-> r.conversation_id,
     intent |-> r.intent,
     actions |-> Get(r, "actions"),
     references |-> Get(r, "references")]

\* class ReadinessResponse, built from the orchestrator's result
ReadinessResponse(r) ==
    [readiness_score |-> r.readiness_score,
     components |-> r.components,
     recommendations |-> r.recommendations,
     adjustment |-> Get(r, "adjustment"),
     message |-> r.message]

-----------------------------------------------------------------------------
(* main.py: what a handler does                                             *)

\* logger.info / logger.error: the record's level, its text and the value
\* formatted into it.
LogRecord(level, msg, arg) == [level |-> level, msg |-> msg, arg |-> arg]

HttpOk(body) == [kind |-> "http", status |-> 200, body |-> body]

\* HTTPException(status_code, detail), and the framework's rejection of a body
\* that fails validation (status 422, naming the fields).
HttpError(status, detail) == [kind |-> "http", status |-> status, detail |-> detail]

\* A handler's run up to its first await or its end: the registry afterwards,
\* the records logged, and either the orchestrator call awaited or the
\* response.
Suspend(ps, entries, call) ==
    [personas |-> ps, log |-> entries, suspended |-> TRUE, call |-> call]

Respond(ps, entries, response) ==
    [personas |-> ps, log |-> entries, suspended |-> FALSE, resp |-> response]

\* A handler's run from the await to its end.
Finish(entries, response) == [log |-> entries, resp |-> response]

\* health_check
health_check == 
    [status |-> "healthy", service |-> "AI Fitness Coach Agent", version |-> "1.0.0"]

\* chat handing the orchestrator the default persona's configuration,
\* whatever persona the request names.
chat_begin_default(ps, request) ==
    LET entry == LogRecord("INFO", "Chat request from user", request.user_id)
        personality_config == get_persona_config(ps, "calm")
    IN  Suspend(personality_config.personas, <<entry>>,
                [fn |-> "process_message",
                 user_id |-> request.user_id,
                 message |-> request.message,
                 conversation_id |-> request.conversation_id,
                 persona_config |-> personality_config.ret,
                 context |-> request.context])

\* chat, from the start of the try block to the await of process_message.
\* The INFO record's excerpt of the message is not held.
chat_begin(ps, request) ==
    LET entry == LogRecord("INFO", "Chat request from user", request.user_id)
        personality_config == get_persona_config(ps, request.persona)
    IN  IF personality_config.ok
        THEN Suspend(personality_config.personas, <<entry>>,
                     [fn |-> "process_message",
                      user_id |-> request.user_id,
                      message |-> request.message,
                      conversation_id |-> request.conversation_id,
                      persona_config |-> personality_config.ret,
                      context |-> request.context])
        ELSE Respond(personality_config.personas,
                     <<entry, LogRecord("ERROR", "Error processing chat request",
                                        personality_config.exc)>>,
                     HttpError(500, personality_config.exc))

\* chat after the await, failing without a log record.
chat_end_silent(request, outcome) ==
    IF outcome.ok
    THEN Finish(<<LogRecord("INFO", "Successfully processed chat for user",
                            request.user_id)>>,
                HttpOk(ChatResponse(outcome.ret)))
    ELSE Finish(<<>>, HttpError(500, outcome.exc))

\* chat, from the await of process_message to the end.
chat_end(request, outcome) ==
    IF outcome.ok
    THEN Finish(<<LogRecord("INFO", "Successfully processed chat for user",
                            request.user_id)>>,
                HttpOk(ChatResponse(outcome.ret)))
    ELSE Finish(<<LogRecord("ERROR", "Error processing chat request", outcome.exc)>>,
                HttpError(500, outcome.exc))

\* calculate_readiness, from the start of the try block to the await.
calculate_readiness_begin(ps, request) ==
    Suspend(ps, <<LogRecord("INFO", "Calculating readiness for user", request.user_id)>>,
            [fn |-> "calculate_readiness",
             user_id |-> request.user_id,
             date |-> request.date])

\* calculate_readiness after the await, hiding the error's message.
calculate_readiness_end_generic(request, outcome) ==
    IF outcome.ok
    THEN Finish(<<>>, HttpOk(ReadinessResponse(outcome.ret)))
    ELSE Finish(<<LogRecord("ERROR", "Error calculating readiness", outcome.exc)>>,
                HttpError(500, "Internal Server Error"))

\* calculate_readiness, from the await to the end.
calculate_readiness_end(request, outcome) ==
    IF outcome.ok
    THEN Finish(<<>>, HttpOk(ReadinessResponse(outcome.ret)))
    ELSE Finish(<<LogRecord("ERROR", "Error calculating readiness", outcome.exc)>>,
                HttpError(500, outcome.exc))

\* generate_plan, from the start of the try block to the await.
generate_plan_begin(ps, request) ==
    Suspend(ps, <<LogRecord("INFO", "Generating plan for user", request.user_id)>>,
            [fn |-> "generate_training_plan",
             user_id |-> request.user_id,
             preferences |-> request.preferences,
             onboarding_data |-> request.onboarding_data])

\* generate_plan, from the await to the end.
generate_plan_end(request, outcome) ==
    IF outcome.ok
    THEN Finish(<<>>, HttpOk([plan_id |-> outcome.ret.plan_id,
                              plan |-> outcome.ret.plan,
                              message |-> outcome.ret.message]))
    ELSE Finish(<<LogRecord("ERROR", "Error generating plan", outcome.exc)>>,
                HttpError(500, outcome.exc))

\* transcribe_voice
transcribe_voice(audio_data) ==
    [transcription |-> "Voice transcription not yet implemented"]

\* synthesize_voice naming the persona in its answer.
synthesize_voice_persona(text, persona) ==
    IF persona = "calm"
    THEN [audio_url |-> "Voice synthesis not yet implemented"]
    ELSE [audio_url |-> persona]

\* synthesize_voice
synthesize_voice(text, persona) ==
    [audio_url |-> "Voice synthesis not yet implemented"]

-----------------------------------------------------------------------------
(* Inputs                                                                   *)

\* Persona names a caller may give: the four keys, an unknown name, the
\* empty string.
PersonaNames == {"calm", "motivational", "gentle", "concise", "unknown_xyz", ""}

\* Bodies posted to /chat: valid ones over the persona names, with and
\* without the optional fields, with an empty message or user_id, and bodies
\* lacking a required field.
ChatBodies ==
    {[message |-> "How was my week?", user_id |-> "u1"]}
    \cup {[message |-> "How was my week?", user_id |-> "u1", persona |-> p] :
            p \in {"motivational", "unknown_xyz", ""}}
    \cup {[message |-> "Log my run", user_id |-> "u2", persona |-> "concise",
           conversation_id |-> Some("c7"), context |-> Some([screen |-> "home"])]}
    \cup {[message |-> "", user_id |-> "u1"],
          [message |-> "How was my week?", user_id |-> "", persona |-> "gentle"]}
    \cup {[user_id |-> "u1", persona |-> "motivational"],
          [message |-> "How was my week?"]}

\* Bodies posted to /readiness.
ReadinessBodies ==
    {[user_id |-> "u1"],
     [user_id |-> "u2", date |-> Some("2024-05-01")],
     [date |-> Some("2024-05-01")]}

\* Bodies posted to /generate-plan.
PlanBodies ==
    {[user_id |-> "u1", preferences |-> [days |-> 3],
      onboarding_data |-> [goal |-> "strength"]],
     [user_id |-> "u1", preferences |-> [days |-> 3]]}

AudioInputs == {"", "RIFF"}

TextInputs == {"", "Great job"}

\* What process_message may return: a result with the four plain fields,
\* and one with actions and references as well.
ChatResults ==
    {[response |-> "Solid week.", agent_id |-> "coach",
      conversation_id |-> "c1", intent |-> "review"],
     [response |-> "Logged.", agent_id |-> "tracker",
      conversation_id |-> "c7", intent |-> "log_workout",
      actions |-> <<[type |-> "log_workout"]>>,
      references |-> [workout |-> "w1"]]}

\* What calculate_readiness may return.
ReadinessResults ==
    {[readiness_score |-> 72, components |-> [sleep |-> 80],
      recommendations |-> [intensity |-> "reduce"], message |-> "Take it easy"],
     [readiness_score |-> 90, components |-> [sleep |-> 95],
      recommendations |-> [intensity |-> "normal"], message |-> "Go",
      adjustment |-> [volume |-> "up"]]}

\* What generate_training_plan may return; the handler passes three of
\* its keys on.
PlanResults ==
    {[plan_id |-> "p1", plan |-> [weeks |-> 4], message |-> "Plan ready",
      model |-> "draft"]}

\* str(e) of the exceptions the orchestrator may raise.
Errors == {"LLM provider timeout", "database unavailable"}

Returned(S) == {[ok |-> TRUE, ret |-> r] : r \in S}

Raised == {[ok |-> FALSE, exc |-> e] : e \in Errors}

-----------------------------------------------------------------------------
(* The state machine                                                        *)

NoRequest == [op |-> "none"]

NoResponse == [kind |-> "none"]

Init ==
    /\ personas = initialize_personas
    /\ pc = [t \in Tasks |-> "idle"]
    /\ req = [t \in Tasks |-> NoRequest]
    /\ calls = [t \in Tasks |-> <<>>]
    /\ log = [t \in Tasks |-> <<>>]
    /\ result = [t \in Tasks |-> None]
    /\ resp = [t \in Tasks |-> NoResponse]

\* A call made without await holds the event loop until it ends.
blocking_pc == "blocking"

\* await: the task is suspended and the event loop is free.
await_pc == "awaiting"

Suspended == {"awaiting", "blocking"}

\* The event loop runs a handler only while no task holds it.
LoopFree == \A u \in Tasks : pc[u] # "blocking"

\* Task t starts operation op on input raw; h is the handler's run up to its
\* first await or its end.
Start(t, op, raw, h) ==
    /\ pc[t] = "idle"
    /\ LoopFree
    /\ req' = [req EXCEPT ![t] = [op |-> op, raw |-> raw]]
    /\ personas' = h.personas
    /\ log' = [log EXCEPT ![t] = h.log]
    /\ IF h.suspended
       THEN /\ pc' = [pc EXCEPT ![t] = await_pc]
            /\ calls' = [calls EXCEPT ![t] = <<h.call>>]
            /\ UNCHANGED resp
       ELSE /\ pc' = [pc EXCEPT ![t] = "done"]
            /\ resp' = [resp EXCEPT ![t] = h.resp]
            /\ UNCHANGED calls
    /\ UNCHANGED result

\* The orchestrator call task t awaits ends with outcome; h is the handler's
\* run from there to its end.
Resume(t, outcome, h) ==
    /\ pc[t] = "blocking" \/ (pc[t] = "awaiting" /\ LoopFree)
    /\ result' = [result EXCEPT ![t] = Some(outcome)]
    /\ log' = [log EXCEPT ![t] = log[t] \o h.log]
    /\ resp' = [resp EXCEPT ![t] = h.resp]
    /\ pc' = [pc EXCEPT ![t] = "done"]
    /\ UNCHANGED <<personas, req, calls>>

\* A body that fails validation is answered 422 before the handler runs.
Endpoint(fields, defaults, raw, ps, h) ==
    LET errs == ValidationErrors(fields, defaults, raw)
    IN  IF errs # {} THEN Respond(ps, <<>>, HttpError(422, errs)) ELSE h

\* GET /health
HealthCheck(t) ==
    Start(t, "health", None, Respond(personas, <<>>, HttpOk(health_check)))

\* POST /chat, to the await
Chat(t) ==
    \E raw \in ChatBodies :
        Start(t, "chat", raw,
              Endpoint(ChatRequestFields, ChatRequestDefaults, raw, personas,
                       chat_begin(personas,
                                  Parse(ChatRequestFields, ChatRequestDefaults, raw))))

\* POST /chat, from the await
ChatResume(t) ==
    /\ req[t].op = "chat"
    /\ \E outcome \in Returned(ChatResults) \cup Raised :
        Resume(t, outcome,
               chat_end(Parse(ChatRequestFields, ChatRequestDefaults, req[t].raw),
                        outcome))

\* POST /readiness, to the await
CalculateReadiness(t) ==
    \E raw \in ReadinessBodies :
        Start(t, "readiness", raw,
              Endpoint(ReadinessRequestFields, ReadinessRequestDefaults, raw, personas,
                       calculate_readiness_begin(personas,
                           Parse(ReadinessRequestFields, ReadinessRequestDefaults, raw))))

\* POST /readiness, from the await
CalculateReadinessResume(t) ==
    /\ req[t].op = "readiness"
    /\ \E outcome \in Returned(ReadinessResults) \cup Raised :
        Resume(t, outcome,
               calculate_readiness_end(
                   Parse(ReadinessRequestFields, ReadinessRequestDefaults, req[t].raw),
                   outcome))

\* POST /generate-plan, to the await
GeneratePlan(t) ==
    \E raw \in PlanBodies :
        Start(t, "generate_plan", raw,
              Endpoint(PlanGenerationRequestFields, PlanGenerationRequestDefaults, raw,
                       personas,
                       generate_plan_begin(personas,
                           Parse(PlanGenerationRequestFields,
                                 PlanGenerationRequestDefaults, raw))))

\* POST /generate-plan, from the await
GeneratePlanResume(t) ==
    /\ req[t].op = "generate_plan"
    /\ \E outcome \in Returned(PlanResults) \cup Raised :
        Resume(t, outcome,
               generate_plan_end(
                   Parse(PlanGenerationRequestFields, PlanGenerationRequestDefaults,
                         req[t].raw),
                   outcome))

\* POST /voice/transcribe
TranscribeVoice(t) ==
    \E audio_data \in AudioInputs :
        Start(t, "transcribe_voice", [audio_data |-> audio_data],
              Respond(personas, <<>>, HttpOk(transcribe_voice(audio_data))))

\* POST /voice/synthesize
SynthesizeVoice(t) ==
    \E text \in TextInputs, persona \in {"calm", "motivational"} :
        Start(t, "synthesize_voice", [text |-> text, persona |-> persona],
              Respond(personas, <<>>, HttpOk(synthesize_voice(text, persona))))

\* What the caller of a method gets: its return value or its exception.
CallOutcome(m) ==
    Respond(m.personas, <<>>,
            IF m.ok THEN [kind |-> "return", value |-> m.ret]
                    ELSE [kind |-> "raise", exc |-> m.exc])

\* A direct call of personality_system.get_persona_config
GetPersonaConfig(t) ==
    \E persona_name \in PersonaNames :
        Start(t, "get_persona_config", [persona_name |-> persona_name],
              CallOutcome(get_persona_config(personas, persona_name)))

\* A direct call of personality_system.get_system_prompt_addon
GetSystemPromptAddon(t) ==
    \E persona_name \in {"motivational", "unknown_xyz", ""} :
        Start(t, "get_system_prompt_addon", [persona_name |-> persona_name],
              CallOutcome(get_system_prompt_addon(personas, persona_name)))

\* A direct call of personality_system.get_ui_config
GetUiConfig(t) ==
    \E persona_name \in {"concise", "unknown_xyz", ""} :
        Start(t, "get_ui_config", [persona_name |-> persona_name],
              CallOutcome(get_ui_config(personas, persona_name)))

Next ==
    \E t \in Tasks :
        \/ HealthCheck(t)
        \/ Chat(t)
        \/ ChatResume(t)
        \/ CalculateReadiness(t)
        \/ CalculateReadinessResume(t)
        \/ GeneratePlan(t)
        \/ GeneratePlanResume(t)
        \/ TranscribeVoice(t)
        \/ SynthesizeVoice(t)
        \/ GetPersonaConfig(t)
        \/ GetSystemPromptAddon(t)
        \/ GetUiConfig(t)

Spec == Init /\ [][Next]_vars

-----------------------------------------------------------------------------
(* Properties                                                               *)

RegisteredKeys == {"calm", "motivational", "gentle", "concise"}

LookupOps == {"get_persona_config", "get_system_prompt_addon", "get_ui_config"}

DelegatingOps == {"chat", "readiness", "generate_plan"}

Started(t) == pc[t] # "idle"

Done(t) == pc[t] = "done"

\* The task's orchestrator call raised.
Failed(t) == Done(t) /\ result[t] # None /\ ~result[t][1].ok

\* The task's orchestrator call returned.
Succeeded(t) == Done(t) /\ result[t] # None /\ result[t][1].ok

\* C1: a lookup of a name that is not a registered key, the empty string
\* included, raises nothing and gives what the "calm" configuration gives:
\* get_persona_config the Zen Coach configuration, get_system_prompt_addon
\* its prompt addon, get_ui_config its colour, avatar and name.
C1_UnknownPersonaFallsBackToCalm ==
    \A t \in Tasks :
        (Done(t) /\ req[t].op \in LookupOps
                 /\ req[t].raw.persona_name \notin RegisteredKeys)
        => /\ resp[t].kind = "return"
           /\ req[t].op = "get_persona_config" =>
                /\ resp[t].value = initialize_personas.calm
                /\ resp[t].value.name = "Zen Coach"
           /\ req[t].op = "get_system_prompt_addon" =>
                resp[t].value = "You embody the \"Calm\" personality in EVERY interaction."
           /\ req[t].op = "get_ui_config" =>
                resp[t].value = [accent_color |-> "#7C9FB0",
                                 avatar_url |-> "/avatars/calm-coach.png",
                                 name |-> "Zen Coach"]

\* C1's case: get_persona_config("") and get_ui_config("unknown_xyz") have
\* both been answered.
C1_Witness ==
    \E t, u \in Tasks :
        /\ Done(t) /\ req[t].op = "get_persona_config"
                   /\ req[t].raw.persona_name = ""
        /\ Done(u) /\ req[u].op = "get_ui_config"
                   /\ req[u].raw.persona_name = "unknown_xyz"

\* The name field of each registered persona.
DisplayNames ==
    [calm |-> "Zen Coach", motivational |-> "Hype Coach",
     gentle |-> "Supportive Coach", concise |-> "Tactical Coach"]

NonEmpty(config) ==
    \A f \in DOMAIN config :
        IF f \in PersonaListFields THEN config[f] # <<>> ELSE config[f] # ""

\* A get_persona_config call of a registered key that has been answered.
KnownLookup(t) ==
    /\ Done(t)
    /\ req[t].op = "get_persona_config"
    /\ req[t].raw.persona_name \in RegisteredKeys

ValidChat(t) ==
    /\ Started(t)
    /\ req[t].op = "chat"
    /\ {"message", "user_id"} \subseteq DOMAIN req[t].raw

\* C3: a chat request without a message field, or without a user_id field,
\* is answered with a client error naming the absent fields before the
\* handler body runs: nothing is logged, process_message is never called
\* and no ChatResponse is produced.
C3_MissingFieldRejected ==
    \A t \in Tasks :
        (Started(t) /\ req[t].op = "chat"
                    /\ ~({"message", "user_id"} \subseteq DOMAIN req[t].raw))
        => /\ Done(t)
           /\ resp[t].kind = "http"
           /\ resp[t].status \in 400..499
           /\ resp[t].detail = {"message", "user_id"} \ DOMAIN req[t].raw
           /\ calls[t] = <<>>
           /\ log[t] = <<>>
           /\ result[t] = None

\* C3's case: a chat request without a message has been answered.
C3_Witness ==
    \E t \in Tasks :
        /\ Done(t) /\ req[t].op = "chat"
        /\ "message" \notin DOMAIN req[t].raw
        /\ "user_id" \in DOMAIN req[t].raw

\* A chat request carrying an empty message or an empty user_id.
EmptyFieldChat(t) ==
    /\ ValidChat(t)
    /\ (req[t].raw.message = "" \/ req[t].raw.user_id = "")

\* C4 as stated: a chat request whose message or user_id is the empty string
\* is not forwarded to the orchestrator.
C4_Original ==
    \A t \in Tasks : EmptyFieldChat(t) => calls[t] = <<>>

\* C4 amended: handleChat requires message and user_id to be present, not to
\* be non-empty: a chat request whose message or user_id is the empty string
\* passes validation and is forwarded to process_message once, the empty
\* value unchanged.
C4_EmptyFieldForwarded ==
    \A t \in Tasks :
        EmptyFieldChat(t)
        => /\ Len(calls[t]) = 1
           /\ calls[t][1].fn = "process_message"
           /\ calls[t][1].message = req[t].raw.message
           /\ calls[t][1].user_id = req[t].raw.user_id
           /\ (Done(t) => resp[t].status # 422)

\* C4's case: a request with an empty message and one with an empty user_id
\* have both reached the orchestrator.
C4_Witness ==
    \E t, u \in Tasks :
        /\ EmptyFieldChat(t) /\ req[t].raw.message = ""
        /\ EmptyFieldChat(u) /\ req[u].raw.user_id = ""

\* C5: when the orchestrator call of a chat, readiness or plan request
\* raises, the request ends with a status-500 failure whose detail is the
\* error's message, the call was made once, and no success is returned.
C5_OrchestratorFailureTerminal ==
    \A t \in Tasks :
        (Failed(t) /\ req[t].op \in DelegatingOps)
        => /\ resp[t].kind = "http"
           /\ resp[t].status = 500
           /\ resp[t].detail = result[t][1].exc
           /\ "body" \notin DOMAIN resp[t]
           /\ Len(calls[t]) = 1

\* C5's case: a readiness request and a plan request have both failed.
C5_Witness ==
    \E t, u \in Tasks :
        /\ Failed(t) /\ req[t].op = "readiness"
        /\ Failed(u) /\ req[u].op = "generate_plan"

Count(entries, level) ==
    Cardinality({i \in 1..Len(entries) : entries[i].level = level})

\* C6 as stated: a chat request whose process_message call raises leaves
\* one log record, counted from its arrival to its failure response.
C6_Original ==
    \A t \in Tasks :
        (Failed(t) /\ req[t].op = "chat") => Len(log[t]) = 1

\* C6 amended: a chat request whose process_message call raises leaves
\* one ERROR record, carrying the error's message; with the INFO record
\* written on arrival that makes two records, the INFO one first.
C6_OneErrorRecord ==
    \A t \in Tasks :
        (Failed(t) /\ req[t].op = "chat")
        => /\ Count(log[t], "ERROR") = 1
           /\ Len(log[t]) = 2
           /\ log[t][1] = LogRecord("INFO", "Chat request from user", req[t].raw.user_id)
           /\ log[t][2].level = "ERROR"
           /\ log[t][2].arg = result[t][1].exc

\* C6's case: a chat request has failed in the orchestrator.
C6_Witness ==
    \E t \in Tasks : Failed(t) /\ req[t].op = "chat"

\* The persona a chat body asks for.
PersonaOf(raw) == IF "persona" \in DOMAIN raw THEN raw.persona ELSE "calm"

\* C7: every chat request that passes validation, whatever its persona,
\* calls process_message once with its user_id, message, conversation_id and
\* context and with the configuration of its persona (the Hype Coach one for
\* "motivational", the calm one for an unknown name); when the call returns,
\* the response carries the result's response, agent_id, conversation_id and
\* intent, and its actions and references, or null where it has none.
C7_ChatPassThrough ==
    \A t \in Tasks :
        ValidChat(t)
        => LET raw == req[t].raw
               persona == PersonaOf(raw)
           IN  /\ Len(calls[t]) = 1
               /\ calls[t][1].fn = "process_message"
               /\ calls[t][1].user_id = raw.user_id
               /\ calls[t][1].message = raw.message
               /\ calls[t][1].conversation_id =
                     (IF "conversation_id" \in DOMAIN raw THEN raw.conversation_id ELSE None)
               /\ calls[t][1].context =
                     (IF "context" \in DOMAIN raw THEN raw.context ELSE None)
               /\ calls[t][1].persona_config =
                     (IF persona \in RegisteredKeys
                      THEN initialize_personas[persona]
                      ELSE initialize_personas.calm)
               /\ persona = "motivational" => calls[t][1].persona_config.name = "Hype Coach"
               /\ persona \notin RegisteredKeys => calls[t][1].persona_config.name = "Zen Coach"
               /\ Succeeded(t) =>
                    LET r == result[t][1].ret
                    IN  /\ resp[t].kind = "http"
                        /\ resp[t].status = 200
                        /\ resp[t].body.response = r.response
                        /\ resp[t].body.agent_id = r.agent_id
                        /\ resp[t].body.conversation_id = r.conversation_id
                        /\ resp[t].body.intent = r.intent
                        /\ resp[t].body.actions =
                              (IF "actions" \in DOMAIN r THEN Some(r.actions) ELSE None)
                        /\ resp[t].body.references =
                              (IF "references" \in DOMAIN r THEN Some(r.references) ELSE None)

\* C7's case: a "motivational" request has been answered with a result that
\* has actions, and an "unknown_xyz" request with one that has none.
C7_Witness ==
    \E t, u \in Tasks :
        /\ ValidChat(t) /\ PersonaOf(req[t].raw) = "motivational"
        /\ Succeeded(t) /\ "actions" \in DOMAIN result[t][1].ret
        /\ ValidChat(u) /\ PersonaOf(req[u].raw) = "unknown_xyz"
        /\ Succeeded(u) /\ "actions" \notin DOMAIN result[u][1].ret

VoiceOps == {"transcribe_voice", "synthesize_voice"}

C9_RegistryUnchanged ==
    /\ DOMAIN personas = RegisteredKeys
    /\ personas = initialize_personas

\* C9's case: a lookup of an unknown name has been answered and a chat
\* request for an unknown persona has failed in the orchestrator.
C9_Witness ==
    \E t, u \in Tasks :
        /\ Done(t) /\ req[t].op = "get_persona_config"
                   /\ req[t].raw.persona_name = "unknown_xyz"
        /\ Failed(u) /\ req[u].op = "chat" /\ PersonaOf(req[u].raw) = "unknown_xyz"

\* Task q can begin a request of every kind.
CanStart(q) ==
    /\ ENABLED HealthCheck(q)
    /\ ENABLED Chat(q)
    /\ ENABLED CalculateReadiness(q)
    /\ ENABLED GeneratePlan(q)
    /\ ENABLED TranscribeVoice(q)
    /\ ENABLED SynthesizeVoice(q)

\* Task q's orchestrator call can end and its handler run to its end.
CanComplete(q) ==
    \/ ENABLED ChatResume(q)
    \/ ENABLED CalculateReadinessResume(q)
    \/ ENABLED GeneratePlanResume(q)

\* C10: while a request is suspended in its orchestrator call every other
\* task can start a request of any kind, and every other suspended request
\* can complete; and what a finished request logged, called and answered is
\* fixed by its own input and the outcome of its own orchestrator call: two
\* requests that agree on those agree on all of it, whatever else was in
\* flight and in whatever order the requests ended.
C10_RequestsIndependent ==
    /\ \A r \in Tasks :
         pc[r] \in Suspended
         => /\ CanComplete(r)
            /\ \A q \in Tasks \ {r} :
                 /\ pc[q] = "idle" => CanStart(q)
                 /\ pc[q] \in Suspended => CanComplete(q)
    /\ \A t, u \in Tasks :
         (Done(t) /\ Done(u) /\ req[t] = req[u] /\ result[t] = result[u])
         => /\ resp[t] = resp[u]
            /\ calls[t] = calls[u]
            /\ log[t] = log[u]

\* C10's case: two chat requests are suspended in their orchestrator calls
\* at once, the second having started while the first was outstanding.
C10_Witness ==
    \E t, u \in Tasks :
        /\ t # u
        /\ pc[t] = "awaiting" /\ req[t].op = "chat"
        /\ pc[u] = "awaiting" /\ req[u].op = "chat"

====
